---- MODULE Spec2Model ----
(***************************************************************************)
(* Model of AIO_Python.py: the batch video normaliser.  main() scans the   *)
(* library, loads the two persisted sets, feeds every scanned file to a    *)
(* pool of MAX_WORKERS threads running process_video, and saves the two    *)
(* sets.  The file system, the two state files, the two in-memory sets and *)
(* each worker's position inside process_video are the state.              *)
(*                                                                         *)
(* A path is a record [stem, ext]; a stem is a sequence of numbers: the    *)
(* base name (1 = "A", 2 = "B") followed by the unique ids of the          *)
(* "_converted_<timestamp>_<uuid>" suffixes appended to it, so that        *)
(* <<1>> is "A" and <<1, 1>> is "A_converted_<id 1>".                      *)
(***************************************************************************)
EXTENDS Integers, Sequences, FiniteSets, TLC

\* ------------------------------------------------------------------ bounds
\* Number of successive executions of main() that are explored.
MaxRuns == 2

\* Number of successive calls of the subtitle extraction on one file.
MaxCalls == 2

\* ------------------------------------------------------- program constants
MAX_WORKERS == 2
\* max_bytes / chunk_size of compute_file_hash, scaled from 128 chunks to 2.
MaxPrefixChunks == 2
SKIP_4K_OR_HDR == TRUE

Workers == 1 .. MAX_WORKERS

video_exts == {"mkv", "mp4", "avi", "mov", "flv", "wmv"}

TEXT_CODECS == {"subrip", "ass", "ssa", "mov_text", "webvtt"}

PassThroughAudio == {"aac", "mp3", "ac3"}

\* ------------------------------------------------------------------ helpers
Min(S) == CHOOSE x \in S : \A y \in S : x <= y

\* Order of two strings of equal-width fields: the order sorted() gives.
SeqLess(s, t) ==
    LET n == IF Len(s) < Len(t) THEN Len(s) ELSE Len(t)
        d == {i \in 1 .. n : s[i] # t[i]}
    IN  IF d = {} THEN Len(s) < Len(t) ELSE s[Min(d)] < t[Min(d)]

ExtOrd(e) ==
    CASE e = "avi" -> 1 [] e = "flv" -> 2 [] e = "mkv" -> 3
      [] e = "mov" -> 4 [] e = "mp4" -> 5 [] OTHER -> 6

\* "A.mkv" < "A.mp4" < "A_converted_1.mp4" < "B.mkv": '.' sorts before '_'.
PathLess(p, q) ==
    IF p.stem = q.stem THEN ExtOrd(p.ext) < ExtOrd(q.ext)
    ELSE SeqLess(p.stem, q.stem)

RECURSIVE SortPaths(_)
SortPaths(S) ==
    IF S = {} THEN <<>>
    ELSE LET m == CHOOSE x \in S : \A y \in S \ {x} : PathLess(x, y)
         IN  <<m>> \o SortPaths(S \ {m})

RECURSIVE SortHashes(_)
SortHashes(S) ==
    IF S = {} THEN <<>>
    ELSE LET m == CHOOSE x \in S : \A y \in S \ {x} : SeqLess(x, y)
         IN  <<m>> \o SortHashes(S \ {m})

Range(s) == {s[i] : i \in 1 .. Len(s)}

P(stem, ext) == [stem |-> stem, ext |-> ext]

NoPath == P(<<>>, "")

\* ------------------------------------------------------------ file contents
\* What a file holds: its bytes in chunks of chunk_size, the streams the
\* inspection tool reports for it by type, the order of the types in the
\* container, and whether it can be opened for reading.  A directory entry
\* that is a symbolic link holds the path it points to in link.
File(bytes, v, a, s, readable) ==
    [bytes |-> bytes, v |-> v, a |-> a, s |-> s, readable |-> readable,
     order |-> "vas", q |-> [v |-> "ok", a |-> "ok", s |-> "ok"], link |-> NoPath]

\* A symbolic link to the file at target.
Symlink(target) == [File(<<>>, <<>>, <<>>, <<>>, TRUE) EXCEPT !.link = target]

\* The file c muxed with its subtitle streams before the video and audio.
SubsFirst(c) == [c EXCEPT !.order = "sva"]

\* The file c with the inspection tool ending as q says on its three queries:
\* "ok"; "nonzero" for a non-zero exit; "nostreams" for an exit of zero with a
\* JSON text that holds no "streams"; "malformed" for an exit of zero with a
\* text that is no JSON; "timeout" for a run of more than 30 seconds.
Damaged(c, q) == [c EXCEPT !.q = q]

VStream(codec, w, h, ct, pix) ==
    [codec_name |-> codec, width |-> w, height |-> h, color_transfer |-> ct, pix_fmt |-> pix]

AStream(codec) == [codec_name |-> codec]

SStream(codec, lang) == [codec_name |-> codec, language |-> lang]

Hevc720 == VStream("hevc", 1280, 720, "", "yuv420p")

cHEVC    == File(<<1, 1, 1>>, <<Hevc720>>, <<AStream("ac3")>>, <<SStream("subrip", "en")>>, TRUE)
\* Same first MaxPrefixChunks chunks as cHEVC, another tail.
cHEVCb   == File(<<1, 1, 2>>, <<Hevc720>>, <<AStream("ac3")>>, <<SStream("subrip", "en")>>, TRUE)
cOPT     == File(<<2>>, <<VStream("h264", 1920, 1080, "", "yuv420p")>>, <<AStream("aac")>>, <<>>, TRUE)
c4K      == File(<<3>>, <<VStream("hevc", 3840, 2160, "", "yuv420p10le")>>, <<AStream("ac3")>>, <<>>, TRUE)
cWIDE    == File(<<4>>, <<VStream("hevc", 3840, 1080, "", "yuv420p")>>, <<AStream("dts")>>, <<>>, TRUE)
cHDR     == File(<<5>>, <<VStream("hevc", 1920, 1080, "smpte2084", "yuv420p10le")>>, <<AStream("aac")>>, <<>>, TRUE)
cJUNK    == File(<<6>>, <<>>, <<>>, <<>>, TRUE)
\* Already h264/aac, with one text subtitle without a language tag, muxed first.
cSUBS    == SubsFirst(File(<<10>>, <<VStream("h264", 1920, 1080, "", "yuv420p")>>, <<AStream("aac")>>,
                           <<SStream("mov_text", "")>>, TRUE))
cLOCKED  == File(<<7>>, <<Hevc720>>, <<AStream("ac3")>>, <<>>, FALSE)

\* Output of a completed encode of c: h264 video, 8-bit 4:2:0, audio copied
\* when its codec is accepted and re-encoded to aac otherwise, the first
\* text track kept as mov_text.
EncoderOutput(c) ==
    File(<<8>> \o c.bytes,
         IF c.v = <<>> THEN <<>>
         ELSE <<VStream("h264", c.v[1].width, c.v[1].height, c.v[1].color_transfer, "yuv420p")>>,
         IF c.a = <<>> THEN <<>>
         ELSE <<AStream(IF c.a[1].codec_name \in PassThroughAudio THEN c.a[1].codec_name ELSE "aac")>>,
         IF c.s # <<>> /\ c.s[1].codec_name \in TEXT_CODECS
         THEN <<SStream("mov_text", c.s[1].language)>> ELSE <<>>,
         TRUE)

\* What an encode that failed or was killed leaves behind: a file without
\* an index, in which the inspection tool finds no stream.
PartialOutput == File(<<9>>, <<>>, <<>>, <<>>, TRUE)

NoHash == <<>>

\* ------------------------------------------------------------ pure functions
RECURSIVE HashLoop(_, _, _)
HashLoop(bytes, i, acc) ==
    IF i > Len(bytes) THEN acc
    ELSE IF i >= MaxPrefixChunks THEN Append(acc, bytes[i])
    ELSE HashLoop(bytes, i + 1, Append(acc, bytes[i]))

\* The digest is the sequence of chunks folded into it, after a marker.
compute_file_hash(c) == HashLoop(c.bytes, 1, <<0>>)

\* Path.resolve(): the path with a symbolic link followed.
resolve(d, p) == IF p \in DOMAIN d /\ d[p].link # NoPath THEN d[p].link ELSE p

\* open(p) succeeds: p is there, through its link if it is one, and readable.
Readable(d, p) ==
    /\ p \in DOMAIN d
    /\ resolve(d, p) \in DOMAIN d
    /\ d[resolve(d, p)].readable

\* What a tool that opens p reads.
Contents(d, p) == IF Readable(d, p) \/ (p \in DOMAIN d /\ d[p].link = NoPath)
                  THEN d[resolve(d, p)] ELSE cJUNK

with_suffix_mp4(p) == P(p.stem, "mp4")

\* timestamp and uuid of a temporary name: unique per run and source file.
TempId(r, p) == (r - 1) * 6 + ExtOrd(p.ext)

get_temp_conversion_filename(r, p) == P(Append(p.stem, TempId(r, p)), "mp4")

\* glob of "{stem}_converted_*.mp4" in the directory of the file.
TempMatches(d, p) ==
    {q \in DOMAIN d : /\ q.ext = "mp4"
                      /\ Len(q.stem) > Len(p.stem)
                      /\ SubSeq(q.stem, 1, Len(p.stem)) = p.stem}

Unlink(d, S) == [q \in (DOMAIN d) \ S |-> d[q]]

Put(d, p, c) == [q \in (DOMAIN d) \cup {p} |-> IF q = p THEN c ELSE d[q]]

cleanup_temp_files(d, p) == Unlink(d, TempMatches(d, p))

\* The "streams" list of one query that returns: {} (no "streams") on a
\* non-zero exit, the parsed text otherwise.
run_ffprobe(streams, outcome) == IF outcome = "ok" THEN streams ELSE <<>>

\* Lines 128-129 leave run_ffprobe by an exception: subprocess.run raises
\* TimeoutExpired, json.loads raises on a text that is no JSON.
QueryRaises(outcome) == outcome \in {"timeout", "malformed"}

\* check_video_info catches nothing: it raises when one of its queries does.
ProbeRaises(q) == QueryRaises(q.v) \/ QueryRaises(q.a) \/ QueryRaises(q.s)

NoInfo ==
    [video_codec |-> "unknown", audio_codec |-> "unknown",
     text_sub_tracks |-> <<>>, image_sub_tracks |-> <<>>,
     width |-> 0, height |-> 0, color_transfer |-> "", pix_fmt |-> ""]

RECURSIVE SubTracks(_, _, _)
\* enumerate() over the subtitle streams, keeping those of the given kind.
SubTracks(streams, i, text) ==
    IF i > Len(streams) THEN <<>>
    ELSE LET st   == streams[i]
             keep == IF text THEN st.codec_name \in TEXT_CODECS
                     ELSE st.codec_name \notin TEXT_CODECS /\ st.codec_name = "hdmv_pgs_subtitle"
         IN  (IF keep THEN <<<<i - 1, st.codec_name, st.language>>>> ELSE <<>>)
             \o SubTracks(streams, i + 1, text)

\* q gives the outcome of the three queries, none of which raises.
check_video_info(c, q) ==
    LET vi == run_ffprobe(c.v, q.v)
        ai == run_ffprobe(c.a, q.a)
        si == run_ffprobe(c.s, q.s)
    IN  [video_codec     |-> IF vi # <<>> THEN vi[1].codec_name ELSE "unknown",
         width           |-> IF vi # <<>> THEN vi[1].width ELSE 0,
         height          |-> IF vi # <<>> THEN vi[1].height ELSE 0,
         color_transfer  |-> IF vi # <<>> THEN vi[1].color_transfer ELSE "",
         pix_fmt         |-> IF vi # <<>> THEN vi[1].pix_fmt ELSE "",
         audio_codec     |-> IF ai # <<>> THEN ai[1].codec_name ELSE "unknown",
         text_sub_tracks |-> SubTracks(si, 1, TRUE),
         image_sub_tracks |-> SubTracks(si, 1, FALSE)]

\* A slip in the resolution test: either dimension is enough.
is_4k_or_hdr_EitherDimension(width, height, color_transfer) ==
    IF width >= 3840 \/ height >= 2160 THEN TRUE
    ELSE color_transfer \in {"smpte2084", "arib-std-b67", "pq"}

is_4k_or_hdr(width, height, color_transfer) ==
    IF width >= 3840 /\ height >= 2160 THEN TRUE
    ELSE color_transfer \in {"smpte2084", "arib-std-b67", "pq"}

Unprobeable(info) == info.video_codec = "unknown" /\ info.audio_codec = "unknown"

AlreadyOptimal(info, p) ==
    /\ info.video_codec = "h264"
    /\ info.audio_codec \in PassThroughAudio
    /\ p.ext = "mp4"

\* The streams of the container in the order of their index: the n-th
\* stream of a type is [type, k |-> n].
Container(c) ==
    LET V == [i \in 1 .. Len(c.v) |-> [type |-> "v", k |-> i]]
        A == [i \in 1 .. Len(c.a) |-> [type |-> "a", k |-> i]]
        S == [i \in 1 .. Len(c.s) |-> [type |-> "s", k |-> i]]
    IN  IF c.order = "sva" THEN S \o V \o A ELSE V \o A \o S

\* "-map 0:{track_index}" of lines 222 and 237: the stream of the input whose
\* index in the container is track_index.
MappedStream(c, track_index) ==
    IF track_index + 1 \in 1 .. Len(Container(c))
    THEN Container(c)[track_index + 1]
    ELSE [type |-> "none", k |-> 0]

\* The encoder can write the mapped stream as the wanted kind of sidecar:
\* a text subtitle as .srt, a PGS subtitle as .sup.
Extractable(c, track_index, ext) ==
    LET m == MappedStream(c, track_index)
    IN  /\ m.type = "s"
        /\ IF ext = "srt" THEN c.s[m.k].codec_name \in TEXT_CODECS
           ELSE c.s[m.k].codec_name = "hdmv_pgs_subtitle"

\* An identity is one line of the file: a path holds no line break and, being
\* absolute and ending in its extension, no blank at either end, so that
\* strip() and the split into lines give back the strings that were written.
load_processed_list(f) == IF ~f.exists THEN {} ELSE Range(f.lines)

load_hash_db(f) == IF ~f.exists THEN {} ELSE Range(f.lines)

\* The lines save_processed_list writes, in order.
save_processed_list(processed) == SortPaths(processed)

save_hash_db(hashes) == SortHashes(hashes)

scan_video_files(d) == SortPaths({p \in DOMAIN d : p.ext \in video_exts})

\* ------------------------------------------------------------------- state
VARIABLES
    disk,              \* the video files of the library: path -> contents
    sidecars,          \* the subtitle files next to them
    processedFile,     \* processed.txt: [exists, lines]
    hashesFile,        \* hashes_db.txt: [exists, lines]
    processed_set,     \* main's processed_set, shared by the workers
    processed_hashes,  \* main's processed_hashes, shared by the workers
    mainpc,            \* where main() is
    run,               \* how many times main() has been started
    queue,             \* the submitted tasks no worker has taken yet
    raised,            \* some future holds an exception
    pc,                \* where each worker is in process_video
    loc,               \* each worker's local variables
    decided,           \* history: the decisions of this run
    failures,          \* history: [path, at]: the exceptions of this run
    convFailed,        \* history: identities whose conversion failed, by the run that saved them
    loaded,            \* history: the two sets as this run loaded them
    saved,             \* history: the two sets last saved completely, and the runs that saved
    disk0,             \* history: the library as this run scanned it
    calls              \* history: the calls of the subtitle extraction made on their own

vars == <<disk, sidecars, processedFile, hashesFile, processed_set, processed_hashes,
          mainpc, run, queue, raised, pc, loc, decided, failures, convFailed, loaded, saved,
          disk0, calls>>

shared == <<processed_set, processed_hashes>>
files == <<disk, sidecars>>
persisted == <<processedFile, hashesFile>>
mainvars == <<mainpc, run, queue, loaded, saved, disk0>>

\* result.returncode and dst.exists() after a strategy; "none" before it ran.
NoResult == [exit |-> "none", exists |-> FALSE]

Idle == [task |-> NoPath, original_path_str |-> NoPath, hash |-> NoHash, info |-> NoInfo, tmp |-> NoPath,
         final |-> NoPath, gpu |-> NoResult, cpu |-> NoResult]

NoFile == [exists |-> FALSE, lines |-> <<>>]

Amkv == P(<<1>>, "mkv")
Aavi == P(<<1>>, "avi")
Amp4 == P(<<1>>, "mp4")
Bmkv == P(<<2>>, "mkv")

Lib1(p1, c1) == [q \in {p1} |-> c1]

Lib2(p1, c1, p2, c2) == [q \in {p1, p2} |-> IF q = p1 THEN c1 ELSE c2]

\* The libraries main() is started on.
Libraries ==
    {Lib2(Amkv, cHEVC, Bmkv, cHEVCb),
     Lib2(Amkv, cHEVC, Amp4, cOPT),
     Lib2(Aavi, cWIDE, Amkv, cHEVC),
     Lib2(Amkv, c4K, Bmkv, cJUNK),
     Lib2(Amkv, cHDR, Bmkv, cWIDE),
     Lib2(Amkv, cLOCKED, Bmkv, cHEVC),
     Lib2(Amp4, cHEVC, Bmkv, cOPT),
     Lib2(Amkv, Damaged(cOPT, [v |-> "nonzero", a |-> "ok", s |-> "ok"]),
          Bmkv, Damaged(cHEVC, [v |-> "ok", a |-> "nonzero", s |-> "nostreams"])),
     Lib2(Amp4, cSUBS, Bmkv, cJUNK),
     Lib2(Amkv, Damaged(cHEVC, [v |-> "ok", a |-> "malformed", s |-> "ok"]),
          Bmkv, Damaged(cOPT, [v |-> "ok", a |-> "ok", s |-> "timeout"])),
     Lib2(Amkv, cHEVC, Bmkv, Symlink(Amkv))}

Init ==
    /\ disk \in Libraries
    /\ sidecars = {}
    /\ processedFile = NoFile
    /\ hashesFile = NoFile
    /\ processed_set = {}
    /\ processed_hashes = {}
    /\ mainpc = "idle"
    /\ run = 0
    /\ queue = <<>>
    /\ raised = FALSE
    /\ pc = [w \in Workers |-> "idle"]
    /\ loc = [w \in Workers |-> Idle]
    /\ decided = {}
    /\ failures = {}
    /\ convFailed = {}
    /\ loaded = [handled |-> {}, hashes |-> {}]
    /\ saved = [handled |-> {}, hashes |-> {}, runs |-> {}]
    /\ disk0 = disk
    /\ calls = <<>>

\* ------------------------------------------------------------------- main()
\* Lines 309-322: scan, early return, the two loads, the submits.
MainStart ==
    /\ mainpc \in {"idle", "done", "returned", "aborted"}
    /\ run < MaxRuns
    /\ run' = run + 1
    /\ decided' = {}
    /\ failures' = {}
    /\ raised' = FALSE
    /\ disk0' = disk
    /\ pc' = [w \in Workers |-> "idle"]
    /\ loc' = [w \in Workers |-> Idle]
    /\ LET all_videos == scan_video_files(disk)
       IN  IF all_videos = <<>>
           THEN /\ mainpc' = "returned"
                /\ UNCHANGED <<queue, shared, loaded>>
           ELSE /\ mainpc' = "pool"
                /\ queue' = all_videos
                /\ processed_set' = load_processed_list(processedFile)
                /\ processed_hashes' = load_hash_db(hashesFile)
                /\ loaded' = [handled |-> load_processed_list(processedFile),
                              hashes |-> load_hash_db(hashesFile)]
    /\ UNCHANGED <<files, persisted, convFailed, calls, saved>>

AllIdle == \A w \in Workers : pc[w] = "idle"

\* Lines 323-324 and the end of the with block: every future has finished;
\* future.result() re-raises a task's exception, which leaves main().
PoolDone ==
    /\ mainpc = "pool"
    /\ queue = <<>>
    /\ AllIdle
    /\ mainpc' = IF raised THEN "aborted" ELSE "save_processed"
    /\ UNCHANGED <<files, persisted, shared, run, queue, raised, pc, loc, decided,
                   failures, convFailed, calls, loaded, saved, disk0>>

\* Line 62: open("w") truncates processed.txt.
SaveProcessedOpen ==
    /\ mainpc = "save_processed"
    /\ processedFile' = [exists |-> TRUE, lines |-> <<>>]
    /\ mainpc' = IF processed_set = {} THEN "save_hashes" ELSE "write_processed"
    /\ saved' = IF processed_set = {} THEN [saved EXCEPT !.handled = {}] ELSE saved
    /\ UNCHANGED <<files, hashesFile, shared, run, queue, raised, pc, loc, decided,
                   failures, convFailed, calls, loaded, disk0>>

\* Lines 63-64: one more line of sorted(processed_set) reaches the file.
SaveProcessedWrite ==
    /\ mainpc = "write_processed"
    /\ LET out  == save_processed_list(processed_set)
           n    == Len(processedFile.lines) + 1
           last == n = Len(out)
       IN  /\ processedFile' = [processedFile EXCEPT !.lines = Append(@, out[n])]
           /\ mainpc' = IF last THEN "save_hashes" ELSE "write_processed"
           /\ saved' = IF last THEN [saved EXCEPT !.handled = Range(out)] ELSE saved
    /\ UNCHANGED <<files, hashesFile, shared, run, queue, raised, pc, loc, decided,
                   failures, convFailed, calls, loaded, disk0>>

\* The run has saved both files: line 328.
Finished(s) ==
    [s EXCEPT !.runs = @ \cup {run}]

\* Line 73: open("w") truncates hashes_db.txt.
SaveHashOpen ==
    /\ mainpc = "save_hashes"
    /\ hashesFile' = [exists |-> TRUE, lines |-> <<>>]
    /\ mainpc' = IF processed_hashes = {} THEN "done" ELSE "write_hashes"
    /\ saved' = IF processed_hashes = {} THEN Finished([saved EXCEPT !.hashes = {}]) ELSE saved
    /\ UNCHANGED <<files, processedFile, shared, run, queue, raised, pc, loc, decided,
                   failures, convFailed, calls, loaded, disk0>>

\* Lines 74-75.
SaveHashWrite ==
    /\ mainpc = "write_hashes"
    /\ LET out  == save_hash_db(processed_hashes)
           n    == Len(hashesFile.lines) + 1
           last == n = Len(out)
       IN  /\ hashesFile' = [hashesFile EXCEPT !.lines = Append(@, out[n])]
           /\ mainpc' = IF last THEN "done" ELSE "write_hashes"
           /\ saved' = IF last THEN Finished([saved EXCEPT !.hashes = Range(out)]) ELSE saved
    /\ UNCHANGED <<files, processedFile, shared, run, queue, raised, pc, loc, decided,
                   failures, convFailed, calls, loaded, disk0>>

\* ----------------------------------------------------------- process_video
Running(w, at) == mainpc = "pool" /\ pc[w] = at

Goto(w, at) == pc' = [pc EXCEPT ![w] = at]

\* process_video returns: the worker is free for the next task.
Return(w) ==
    /\ pc' = [pc EXCEPT ![w] = "idle"]
    /\ loc' = [loc EXCEPT ![w] = Idle]

\* An exception leaves process_video and is kept by the task's future.
Raise(w, at) ==
    /\ raised' = TRUE
    /\ failures' = failures \cup {[path |-> loc[w].task, at |-> at]}
    /\ Return(w)

Decision(path, d, handled, seen, info) ==
    [path |-> path, d |-> d, handled |-> handled, seen |-> seen, info |-> info]

\* Lines 243-246: a free worker takes the next task; the identity check.
Start(w) ==
    /\ Running(w, "idle")
    /\ queue # <<>>
    /\ queue' = Tail(queue)
    /\ LET video_file == Head(queue)
           original_path_str == resolve(disk, video_file)
       IN  IF original_path_str \in processed_set
           THEN /\ decided' = decided \cup
                       {Decision(video_file, "already-processed", TRUE, FALSE, NoInfo)}
                /\ UNCHANGED <<pc, loc>>
           ELSE /\ Goto(w, "cleanup")
                /\ loc' = [loc EXCEPT ![w].task = video_file,
                                      ![w].original_path_str = original_path_str]
                /\ UNCHANGED decided
    /\ UNCHANGED <<files, persisted, shared, mainpc, run, raised, failures,
                   convFailed, calls, loaded, saved, disk0>>

\* Line 249.
Cleanup(w) ==
    /\ Running(w, "cleanup")
    /\ disk' = cleanup_temp_files(disk, loc[w].task)
    /\ Goto(w, "hash")
    /\ UNCHANGED <<sidecars, persisted, shared, mainvars, raised, loc, decided,
                   failures, convFailed, calls>>

\* Line 251: open() raises when the file is gone or cannot be read.
Hash(w) ==
    /\ Running(w, "hash")
    /\ IF Readable(disk, loc[w].task)
       THEN /\ loc' = [loc EXCEPT ![w].hash = compute_file_hash(Contents(disk, loc[w].task))]
            /\ Goto(w, "dup_check")
            /\ UNCHANGED <<raised, failures>>
       ELSE Raise(w, "hash")
    /\ UNCHANGED <<files, persisted, shared, mainvars, decided, convFailed, calls>>

\* Line 252: the membership test, by itself.
DupCheck(w) ==
    /\ Running(w, "dup_check")
    /\ IF loc[w].hash \in processed_hashes
       THEN /\ Goto(w, "dup_unlink")
            /\ decided' = decided \cup
                   {Decision(loc[w].task, "duplicate", FALSE, TRUE, NoInfo)}
       ELSE /\ Goto(w, "hash_add")
            /\ UNCHANGED decided
    /\ UNCHANGED <<files, persisted, shared, mainvars, raised, loc, failures, convFailed, calls>>

\* Line 254.
DupUnlink(w) ==
    /\ Running(w, "dup_unlink")
    /\ IF loc[w].task \in DOMAIN disk
       THEN /\ disk' = Unlink(disk, {loc[w].task})
            /\ Goto(w, "dup_mark")
            /\ UNCHANGED <<raised, failures, loc>>
       ELSE /\ Raise(w, "unlink")
            /\ UNCHANGED disk
    /\ UNCHANGED <<sidecars, persisted, shared, mainvars, decided, convFailed, calls>>

\* processed_set.add(original_path_str) of lines 255, 264, 269 and 286.
\* Slips in the marking: the add left out; an assignment in place of the add.
MarkHandled_Nothing(processed, original_path_str) == processed

MarkHandled_Overwrite(processed, original_path_str) == {original_path_str}

MarkHandled(processed, original_path_str) == processed \cup {original_path_str}

\* Lines 255-256.
DupMark(w) ==
    /\ Running(w, "dup_mark")
    /\ processed_set' = MarkHandled(processed_set, loc[w].original_path_str)
    /\ Return(w)
    /\ UNCHANGED <<files, persisted, processed_hashes, mainvars, raised, decided,
                   failures, convFailed, calls>>

\* Lines 257-258: the insert, by itself.
HashAdd(w) ==
    /\ Running(w, "hash_add")
    /\ processed_hashes' = processed_hashes \cup {loc[w].hash}
    /\ Goto(w, "probe")
    /\ UNCHANGED <<files, persisted, processed_set, mainvars, raised, loc, decided,
                   failures, convFailed, calls>>

\* How the three queries of one call may end: as the file makes them (the
\* inspection tool exits non-zero on a file it cannot open), or with the
\* first of them taking more than its 30 seconds on a loaded machine.
QueriesOn(d, p) ==
    LET q == IF Readable(d, p) THEN Contents(d, p).q
             ELSE [v |-> "nonzero", a |-> "nonzero", s |-> "nonzero"]
    IN  {q, [q EXCEPT !.v = "timeout"]}

\* Lines 261-278: the probe and the decisions taken on its result alone.
Probe(w) ==
    /\ Running(w, "probe")
    /\ \E q \in QueriesOn(disk, loc[w].task) :
            LET video_file == loc[w].task
                info == check_video_info(Contents(disk, video_file), q)
            IN  IF ProbeRaises(q)
                THEN /\ Raise(w, "probe")
                     /\ UNCHANGED decided
                ELSE
                /\ UNCHANGED <<raised, failures>>
                /\ IF Unprobeable(info)
                   THEN /\ decided' = decided \cup
                               {Decision(video_file, "unprobeable", FALSE, FALSE, info)}
                        /\ Goto(w, "skip_mark")
                        /\ UNCHANGED loc
                   ELSE IF SKIP_4K_OR_HDR /\ is_4k_or_hdr(info.width, info.height, info.color_transfer)
                   THEN /\ decided' = decided \cup
                               {Decision(video_file, "policy-4k-hdr", FALSE, FALSE, info)}
                        /\ Goto(w, "skip_mark")
                        /\ UNCHANGED loc
                   ELSE IF AlreadyOptimal(info, video_file)
                   THEN /\ decided' = decided \cup
                               {Decision(video_file, "already-optimal", FALSE, FALSE, info)}
                        /\ Goto(w, "extract")
                        /\ loc' = [loc EXCEPT ![w].info = info, ![w].final = video_file]
                   ELSE /\ decided' = decided \cup
                               {Decision(video_file, "convert", FALSE, FALSE, info)}
                        /\ Goto(w, "gpu")
                        /\ loc' = [loc EXCEPT ![w].info = info,
                                      ![w].tmp = get_temp_conversion_filename(run, video_file)]
    /\ UNCHANGED <<files, persisted, shared, mainvars, convFailed, calls>>

\* Lines 264-265 and 269-270.
SkipMark(w) ==
    /\ Running(w, "skip_mark")
    /\ processed_set' = MarkHandled(processed_set, loc[w].original_path_str)
    /\ Return(w)
    /\ UNCHANGED <<files, persisted, processed_hashes, mainvars, raised, decided,
                   failures, convFailed, calls>>

\* ----------------------------------------------------------- convert_to_mp4
EncoderExits == {"zero", "nonzero", "timeout"}

\* What one run of the encoder may do: it needs a readable source.
EncoderRuns(d, src) ==
    IF Readable(d, src) THEN [exit : EncoderExits, wrote : BOOLEAN]
    ELSE {[exit |-> "nonzero", wrote |-> FALSE]}

\* The disk after one run of "ffmpeg -y -i src ... dst".
Encode(d, src, dst, e) ==
    IF e.wrote
    THEN Put(d, dst, IF e.exit = "zero" THEN EncoderOutput(Contents(d, src)) ELSE PartialOutput)
    ELSE d

\* Lines 190-196: where convert_to_mp4 goes after the GPU run.
AfterGpu(exit, dst_exists) ==
    IF exit = "timeout" THEN "conversion_failed"
    ELSE IF exit = "zero" /\ dst_exists THEN "unlink_src"
    ELSE "cpu"

\* A slip in the test of line 211: the exit status alone.
AfterCpu_ExitOnly(exit, dst_exists) ==
    IF exit = "zero" THEN "unlink_src" ELSE "conversion_failed"

\* Lines 209-214: where convert_to_mp4 goes after the CPU run.
AfterCpu(exit, dst_exists) ==
    IF exit = "timeout" THEN "conversion_failed"
    ELSE IF exit = "zero" /\ dst_exists THEN "unlink_src"
    ELSE "conversion_failed"

\* Lines 179-196: the GPU strategy.
Gpu(w) ==
    /\ Running(w, "gpu")
    /\ \E e \in EncoderRuns(disk, loc[w].task) :
         /\ disk' = Encode(disk, loc[w].task, loc[w].tmp, e)
         /\ Goto(w, AfterGpu(e.exit, loc[w].tmp \in DOMAIN disk'))
         /\ loc' = [loc EXCEPT ![w].gpu = [exit |-> e.exit,
                                            exists |-> loc[w].tmp \in DOMAIN disk']]
    /\ UNCHANGED <<sidecars, persisted, shared, mainvars, raised, decided,
                   failures, convFailed, calls>>

\* Lines 199-214: the CPU strategy.
Cpu(w) ==
    /\ Running(w, "cpu")
    /\ \E e \in EncoderRuns(disk, loc[w].task) :
         /\ disk' = Encode(disk, loc[w].task, loc[w].tmp, e)
         /\ Goto(w, AfterCpu(e.exit, loc[w].tmp \in DOMAIN disk'))
         /\ loc' = [loc EXCEPT ![w].cpu = [exit |-> e.exit,
                                            exists |-> loc[w].tmp \in DOMAIN disk']]
    /\ UNCHANGED <<sidecars, persisted, shared, mainvars, raised, decided,
                   failures, convFailed, calls>>

\* Lines 279-281: convert_to_mp4 returned True; the original is deleted.
UnlinkSrc(w) ==
    /\ Running(w, "unlink_src")
    /\ IF loc[w].task \in DOMAIN disk
       THEN /\ disk' = Unlink(disk, {loc[w].task})
            /\ loc' = [loc EXCEPT ![w].final = with_suffix_mp4(loc[w].task)]
            /\ Goto(w, "rename")
            /\ UNCHANGED <<raised, failures>>
       ELSE /\ Raise(w, "unlink")
            /\ UNCHANGED disk
    /\ UNCHANGED <<sidecars, persisted, shared, mainvars, decided, convFailed, calls>>

Move(d, from, to) == Put(Unlink(d, {from}), to, d[from])

\* Line 282: Path.rename replaces an existing target under POSIX and raises
\* FileExistsError under Windows.
Rename(w) ==
    /\ Running(w, "rename")
    /\ \/ /\ loc[w].tmp \in DOMAIN disk
          /\ disk' = Move(disk, loc[w].tmp, loc[w].final)
          /\ Goto(w, "reprobe")
          /\ UNCHANGED <<raised, failures, loc>>
       \/ /\ loc[w].tmp \notin DOMAIN disk \/ loc[w].final \in DOMAIN disk
          /\ Raise(w, "rename")
          /\ UNCHANGED disk
    /\ UNCHANGED <<sidecars, persisted, shared, mainvars, decided, convFailed, calls>>

\* Lines 285-287: convert_to_mp4 returned False.
ConversionFailed(w) ==
    /\ Running(w, "conversion_failed")
    /\ processed_set' = MarkHandled(processed_set, loc[w].original_path_str)
    /\ convFailed' = convFailed \cup {[id |-> loc[w].original_path_str, run |-> run]}
    /\ Return(w)
    /\ UNCHANGED <<files, persisted, processed_hashes, mainvars, raised, decided, failures,
                   calls>>

\* Line 288.
Reprobe(w) ==
    /\ Running(w, "reprobe")
    /\ \E q \in QueriesOn(disk, loc[w].final) :
         IF ProbeRaises(q)
         THEN Raise(w, "reprobe")
         ELSE /\ loc' = [loc EXCEPT ![w].info = check_video_info(Contents(disk, loc[w].final), q)]
              /\ Goto(w, "extract")
              /\ UNCHANGED <<raised, failures>>
    /\ UNCHANGED <<files, persisted, shared, mainvars, decided, convFailed, calls>>

\* ------------------------------------------------------ subtitle extraction
TrackName(i) == CASE i = 0 -> "track0" [] i = 1 -> "track1" [] OTHER -> "trackN"

\* "{stem}.{lang_tag or trackN}.{srt|sup}" next to the video file.
Sidecar(stem, tag, ext) == [stem |-> stem, tag |-> tag, ext |-> ext]

\* One run of the encoder for a track: a sidecar is written; the run fails
\* and leaves nothing; it fails and leaves an empty file; it takes more than
\* its 120 seconds.
ExtractOutcomes == {"ok", "fail", "left", "timeout"}

\* What detect() makes of an extracted text: a language, a text too short
\* to try, an exception, or no langdetect at all.
DetectOutcomes == {"en", "fr", "short", "raise", "unavailable"}

\* Lines 105-120.
maybe_guess_srt_language(sc, srt, det) ==
    IF det \in {"short", "raise", "unavailable", "en"} \/ srt \notin sc THEN sc
    ELSE LET new_path == Sidecar(srt.stem, Append(srt.tag, det), "srt")
         IN  IF new_path \in sc THEN sc ELSE (sc \ {srt}) \cup {new_path}

\* detect() runs only on the text of a track without a language tag.
DetectOn(tracks) ==
    IF \E i \in 1 .. Len(tracks) : tracks[i][3] = "" THEN DetectOutcomes ELSE {"unavailable"}

RECURSIVE extract_subs(_, _, _, _, _, _, _, _)
\* Lines 216-229 (ext = "srt") and 231-240 (ext = "sup"): the loop from
\* track i on; outs[i] is what the extraction of track i does, det what the
\* language detection does.  The result is the sidecars, whether a timeout
\* left the loop, and how many runs of the encoder were made and failed.
extract_subs(sc, d, video_file, tracks, i, ext, outs, det) ==
    IF i > Len(tracks) THEN [sidecars |-> sc, raised |-> FALSE, ran |-> 0, failed |-> 0]
    ELSE LET track_index == tracks[i][1]
             lang_tag    == tracks[i][3]
             out_path    == Sidecar(video_file.stem,
                                    <<IF lang_tag # "" THEN lang_tag ELSE TrackName(track_index)>>,
                                    ext)
             out         == IF outs[i] = "timeout" THEN "timeout"
                            ELSE IF /\ Readable(d, video_file)
                                    /\ Extractable(Contents(d, video_file), track_index, ext)
                                 THEN outs[i]
                            ELSE IF outs[i] = "ok" THEN "fail"
                            ELSE outs[i]
             after       == IF out = "fail" THEN sc
                            ELSE IF out = "left" THEN sc \cup {out_path}
                            ELSE IF ext = "srt" /\ lang_tag = "" /\ det # "unavailable"
                            THEN maybe_guess_srt_language(sc \cup {out_path}, out_path, det)
                            ELSE sc \cup {out_path}
             rest        == extract_subs(after, d, video_file, tracks, i + 1, ext, outs, det)
         IN  IF out_path \in sc
             THEN extract_subs(sc, d, video_file, tracks, i + 1, ext, outs, det)
             ELSE IF out = "timeout"
             THEN [sidecars |-> sc, raised |-> TRUE, ran |-> 1, failed |-> 1]
             ELSE [rest EXCEPT !.ran = @ + 1,
                               !.failed = @ + (IF out = "ok" THEN 0 ELSE 1)]

\* Lines 290-293.
Extract(w) ==
    /\ Running(w, "extract")
    /\ LET info == loc[w].info
           final_file == loc[w].final
       IN  \E touts \in [1 .. Len(info.text_sub_tracks) -> ExtractOutcomes],
              iouts \in [1 .. Len(info.image_sub_tracks) -> ExtractOutcomes],
              det \in DetectOn(info.text_sub_tracks) :
             LET text  == extract_subs(sidecars, disk, final_file, info.text_sub_tracks,
                                       1, "srt", touts, det)
                 image == extract_subs(text.sidecars, disk, final_file,
                                       info.image_sub_tracks, 1, "sup", iouts, det)
             IN  IF text.raised
                 THEN /\ sidecars' = text.sidecars
                      /\ Raise(w, "extract")
                 ELSE IF image.raised
                 THEN /\ sidecars' = image.sidecars
                      /\ Raise(w, "extract")
                 ELSE /\ sidecars' = image.sidecars
                      /\ Goto(w, "final_mark")
                      /\ UNCHANGED <<raised, failures, loc>>
    /\ UNCHANGED <<disk, persisted, shared, mainvars, decided, convFailed, calls>>

\* Lines 295-296.
FinalMark(w) ==
    /\ Running(w, "final_mark")
    /\ processed_set' = MarkHandled(processed_set, loc[w].original_path_str) \cup {resolve(disk, loc[w].final)}
    /\ Return(w)
    /\ UNCHANGED <<files, persisted, processed_hashes, mainvars, raised, decided,
                   failures, convFailed, calls>>

\* ------------------------------------------------------------ specification
Main ==
    \/ MainStart
    \/ PoolDone
    \/ SaveProcessedOpen
    \/ SaveProcessedWrite
    \/ SaveHashOpen
    \/ SaveHashWrite

process_video(w) ==
    \/ Start(w)
    \/ Cleanup(w)
    \/ Hash(w)
    \/ DupCheck(w)
    \/ DupUnlink(w)
    \/ DupMark(w)
    \/ HashAdd(w)
    \/ Probe(w)
    \/ SkipMark(w)
    \/ Gpu(w)
    \/ Cpu(w)
    \/ UnlinkSrc(w)
    \/ Rename(w)
    \/ ConversionFailed(w)
    \/ Reprobe(w)
    \/ Extract(w)
    \/ FinalMark(w)

Next == Main \/ \E w \in Workers : process_video(w)

Spec == Init /\ [][Next]_vars

\* The process dies (a kill, a power cut) anywhere between the loads and the
\* end of the second save: the workers are gone, the files stay as they are.
\* The two sets keep the value they had in memory, to compare the files with;
\* the behaviours end at the crash, the program is not started again after it.
Crash ==
    /\ mainpc \in {"pool", "save_processed", "write_processed", "save_hashes", "write_hashes"}
    /\ mainpc' = "crashed"
    /\ queue' = <<>>
    /\ pc' = [w \in Workers |-> "idle"]
    /\ loc' = [w \in Workers |-> Idle]
    /\ UNCHANGED <<files, persisted, shared, run, raised, decided, failures, convFailed, calls,
                   loaded, saved, disk0>>

NextCrash == Next \/ Crash

SpecCrash == Init /\ [][NextCrash]_vars

\* ------------------------------------------- the subtitle extraction alone
\* The subtitle streams of the files the extraction is called on.
ExtractSubs ==
    {<<SStream("mov_text", "en")>>,
     <<SStream("mov_text", "")>>,
     <<SStream("subrip", ""), SStream("subrip", "en")>>,
     <<SStream("ass", "fr"), SStream("subrip", "")>>,
     <<SStream("subrip", ""), SStream("ass", "")>>,
     <<SStream("hdmv_pgs_subtitle", "en"), SStream("webvtt", "")>>}

ExtractFiles ==
    {[File(<<10>>, <<Hevc720>>, <<AStream("aac")>>, subs, TRUE) EXCEPT !.order = o] :
        subs \in ExtractSubs, o \in {"sva", "vas"}}

\* One file, and the sidecars found next to it: none, or one of an earlier
\* extraction that language detection renamed.
InitExtract ==
    /\ disk \in {Lib1(Amkv, c) : c \in ExtractFiles}
    /\ sidecars \in {{}, {Sidecar(<<1>>, <<"track0", "fr">>, "srt")}}
    /\ calls = <<>>
    /\ processedFile = NoFile
    /\ hashesFile = NoFile
    /\ processed_set = {}
    /\ processed_hashes = {}
    /\ mainpc = "idle"
    /\ run = 0
    /\ queue = <<>>
    /\ raised = FALSE
    /\ pc = [w \in Workers |-> "idle"]
    /\ loc = [w \in Workers |-> Idle]
    /\ decided = {}
    /\ failures = {}
    /\ convFailed = {}
    /\ loaded = [handled |-> {}, hashes |-> {}]
    /\ saved = [handled |-> {}, hashes |-> {}, runs |-> {}]
    /\ disk0 = disk

\* Lines 216-229: one call of extract_text_subs_if_any on the file, with the
\* text tracks of its profile.
ExtractTextSubs ==
    /\ Len(calls) < MaxCalls
    /\ \E video_file \in DOMAIN disk :
         LET info == check_video_info(disk[video_file], disk[video_file].q)
             text_sub_tracks == info.text_sub_tracks
         IN  \E outs \in [1 .. Len(text_sub_tracks) -> ExtractOutcomes],
                det \in DetectOn(text_sub_tracks) :
               LET r == extract_subs(sidecars, disk, video_file, text_sub_tracks,
                                     1, "srt", outs, det)
               IN  /\ sidecars' = r.sidecars
                   /\ calls' = Append(calls, [before |-> sidecars, after |-> r.sidecars,
                                              ran |-> r.ran, failed |-> r.failed,
                                              raised |-> r.raised])
    /\ UNCHANGED <<disk, persisted, shared, mainvars, raised, pc, loc, decided, failures,
                   convFailed>>

NextExtract == ExtractTextSubs

SpecExtract == InitExtract /\ [][NextExtract]_vars

\* ------------------------------------------------------------------- claims
HandledOnFile == load_processed_list(processedFile)

HashesOnFile == load_hash_db(hashesFile)

\* The files this run scanned.
Scanned == Range(scan_video_files(disk0))

\* main() has left the pool of this run.
RunOver ==
    mainpc \in {"aborted", "save_processed", "write_processed", "save_hashes",
                "write_hashes", "done"}

\* C1: idempotence across runs.  When the run before this one ran to its
\* end (line 328), this run takes no decision but "already-processed", and
\* once it has saved, processed.txt holds the set the run before left.
C1_SecondRunIsNoOp ==
    (run >= 2 /\ (run - 1) \in saved.runs) =>
        /\ \A r \in decided : r.d = "already-processed"
        /\ \A w \in Workers : pc[w] = "idle"
        /\ mainpc = "done" => HandledOnFile = loaded.handled

\* Pairs of scanned files with distinct paths and equal fingerprints, neither
\* handled and the fingerprint not seen when the run started.
DupPairs ==
    {pair \in Scanned \X Scanned :
        /\ pair[1] # pair[2]
        /\ Readable(disk0, pair[1])
        /\ Readable(disk0, pair[2])
        /\ compute_file_hash(Contents(disk0, pair[1])) = compute_file_hash(Contents(disk0, pair[2]))
        /\ resolve(disk0, pair[1]) \notin loaded.handled
        /\ resolve(disk0, pair[2]) \notin loaded.handled
        /\ compute_file_hash(Contents(disk0, pair[1])) \notin loaded.hashes}

\* The file is on disk, as itself or as its converted replacement.
Survives(path) == path \in DOMAIN disk \/ with_suffix_mp4(path) \in DOMAIN disk

\* C2: duplicate removal.  After a run that saved, of two scanned files with
\* equal fingerprints exactly one is left on disk and both identities are
\* handled, whatever the interleaving of the workers.
C2_OneCopySurvives ==
    mainpc = "done" =>
        \A pair \in DupPairs :
            /\ Survives(pair[1]) # Survives(pair[2])
            /\ resolve(disk0, pair[1]) \in processed_set
            /\ resolve(disk0, pair[2]) \in processed_set

\* C3: the fingerprint's check and insert are one atomic step: no two workers
\* are both between the check that found one fingerprint absent and its insert.
C3_AtomicCheckAndInsert ==
    \A w1, w2 \in Workers :
        (w1 # w2 /\ pc[w1] = "hash_add" /\ pc[w2] = "hash_add")
            => loc[w1].hash # loc[w2].hash

\* The ordered rule list of the policy engine: the first match wins.
decide(handled, seen, info, path) ==
    IF handled THEN "already-processed"
    ELSE IF seen THEN "duplicate"
    ELSE IF info.video_codec = "unknown" /\ info.audio_codec = "unknown" THEN "unprobeable"
    ELSE IF /\ SKIP_4K_OR_HDR
            /\ \/ info.width >= 3840 /\ info.height >= 2160
               \/ info.color_transfer \in {"smpte2084", "arib-std-b67", "pq"}
         THEN "policy-4k-hdr"
    ELSE IF /\ info.video_codec = "h264"
            /\ info.audio_codec \in {"aac", "mp3", "ac3"}
            /\ path.ext = "mp4"
         THEN "already-optimal"
    ELSE "convert"

\* C4: decision order.  Every decision process_video takes is the first
\* matching rule of the ordered list, on the identity, fingerprint and profile
\* it observed; a duplicate is deleted.
C4_DecisionOrder ==
    \A r \in decided :
        /\ r.d = decide(r.handled, r.seen, r.info, r.path)
        /\ r.d = "duplicate" =>
              \/ r.path \notin DOMAIN disk
              \/ \E w \in Workers : pc[w] = "dup_unlink" /\ loc[w].task = r.path

C4_Witness ==
    \E r1, r2 \in decided :
        /\ r1.d = "policy-4k-hdr"
        /\ r2.d = "convert"
        /\ r2.info.width >= 3840

StrategyFailed(result) == result.exit # "zero" \/ ~result.exists

\* C5: fallback condition.  Once the GPU strategy has run, the CPU strategy
\* is tried exactly when the GPU one exited non-zero, timed out or left no
\* output; once the CPU strategy has run, its result is convert's.
C5_CpuFallbackIffGpuFails ==
    \A w \in Workers :
        /\ (/\ loc[w].gpu.exit # "none"
            /\ loc[w].cpu.exit = "none"
            /\ pc[w] \in {"cpu", "unlink_src", "conversion_failed"})
           => (pc[w] = "cpu" <=> StrategyFailed(loc[w].gpu))
        /\ (/\ loc[w].cpu.exit # "none"
            /\ pc[w] \in {"unlink_src", "conversion_failed"})
           => (pc[w] = "conversion_failed" <=> StrategyFailed(loc[w].cpu))

\* The failed conversions of earlier runs that saved their state.
PersistedFailures == {rec \in convFailed : rec.run < run /\ rec.run \in saved.runs}

C6_LaterRunsSkip ==
    \A rec \in PersistedFailures :
        /\ \A r \in decided : r.path = rec.id => r.d = "already-processed"
        /\ \A w \in Workers : loc[w].task # rec.id

C6_FailureStep ==
    \A w \in Workers :
        (/\ pc[w] \in {"gpu", "cpu", "conversion_failed"}
         /\ pc'[w] \in {"cpu", "conversion_failed", "idle"}
         /\ pc'[w] # pc[w])
        => /\ loc[w].task \in DOMAIN disk =>
                 /\ loc[w].task \in DOMAIN disk'
                 /\ disk'[loc[w].task] = disk[loc[w].task]
           /\ pc[w] = "conversion_failed" => loc[w].original_path_str \in processed_set'

\* C6: failed conversions are at-most-once.  No step of a conversion that
\* fails deletes, renames or rewrites the source; the failure marks the
\* identity handled; and in every later run that loads the state a run saved
\* after it, the file is skipped as already processed and never converted.
C6_FailedAtMostOnce == []C6_LaterRunsSkip /\ [][C6_FailureStep]_vars

C6_Witness ==
    \E rec \in PersistedFailures :
        /\ rec.id \in DOMAIN disk
        /\ Decision(rec.id, "already-processed", TRUE, FALSE, NoInfo) \in decided

C7_WithinRun == run' = run => processed_set \subseteq processed_set'

\* C7: the handled set only grows.  Within a run no step removes an element
\* of processed_set, and a run that saved left in processed.txt a superset of
\* what it loaded.
C7_HandledOnlyGrows ==
    /\ [][C7_WithinRun]_vars
    /\ [](mainpc = "done" => loaded.handled \subseteq HandledOnFile)

C7_Witness ==
    /\ mainpc = "done"
    /\ run >= 2
    /\ loaded.handled # {}
    /\ loaded.handled # HandledOnFile

\* C8: persistence is atomic with respect to crashes.  After a crash each
\* state file holds the set the run loaded or the whole set of the run.
C8_CrashKeepsWholeSets ==
    mainpc = "crashed" =>
        /\ HandledOnFile \in {loaded.handled, processed_set}
        /\ HashesOnFile \in {loaded.hashes, processed_hashes}

\* C9: per-file failure containment.  When a file's processing raised, every
\* scanned file still came to its end, the run still saves, and the saved
\* file holds every identity handled in the run.
C9_FailureContained ==
    (RunOver /\ failures # {}) =>
        /\ \A path \in Scanned :
              \/ \E r \in decided : r.path = path
              \/ \E f \in failures : f.path = path
        /\ mainpc # "aborted"
        /\ mainpc = "done" => processed_set \subseteq HandledOnFile

C10_HashStep ==
    \A w \in Workers :
        (pc[w] = "hash" /\ pc'[w] # "hash" /\ ~Readable(disk, loc[w].task))
        => /\ pc'[w] = "probe"
           /\ processed_hashes' = processed_hashes
           /\ raised' = raised

\* C10: a hashing failure is not fatal.  When the file cannot be opened or
\* read, process_video goes on to the probe without a fingerprint, leaves
\* seen_fingerprints alone and raises nothing.
C10_HashFailureNotFatal == [][C10_HashStep]_vars

\* The profile the claim describes for a file c whose three queries ended as
\* q: the fields of a query that did not end well keep their defaults, the
\* fields of the others are filled from the file.
C11_Profile(c, q) ==
    LET v == IF q.v = "ok" THEN c.v ELSE <<>>
        a == IF q.a = "ok" THEN c.a ELSE <<>>
        s == IF q.s = "ok" THEN c.s ELSE <<>>
    IN  [video_codec      |-> IF v = <<>> THEN "unknown" ELSE v[1].codec_name,
         width            |-> IF v = <<>> THEN 0 ELSE v[1].width,
         height           |-> IF v = <<>> THEN 0 ELSE v[1].height,
         color_transfer   |-> IF v = <<>> THEN "" ELSE v[1].color_transfer,
         pix_fmt          |-> IF v = <<>> THEN "" ELSE v[1].pix_fmt,
         audio_codec      |-> IF a = <<>> THEN "unknown" ELSE a[1].codec_name,
         text_sub_tracks  |-> SubTracks(s, 1, TRUE),
         image_sub_tracks |-> SubTracks(s, 1, FALSE)]

C11_ProbeStep ==
    \A w \in Workers :
        (pc[w] \in {"probe", "reprobe"} /\ pc'[w] # pc[w]) =>
            LET file == IF pc[w] = "probe" THEN loc[w].task ELSE loc[w].final
            IN  /\ raised' = raised
                /\ failures' = failures
                /\ \E q \in QueriesOn(disk, file) :
                     LET profile == C11_Profile(Contents(disk, file), q)
                     IN  IF pc[w] = "probe"
                         THEN \E r \in decided' : r.path = file /\ r.info = profile
                         ELSE loc'[w].info = profile

\* C11: partial probe results are valid.  However the three queries of a
\* probe end (non-zero exit, timeout, missing or malformed output), the probe
\* returns a profile, with defaults for the queries that did not end well and
\* the other fields filled, and raises nothing.
C11_PartialProbeValid == [][C11_ProbeStep]_vars

\* convert_to_mp4 returned True for the file worker w is processing.
ConvertSucceeded(w) ==
    /\ pc[w] \in {"unlink_src", "rename", "reprobe", "extract", "final_mark"}
    /\ loc[w].tmp # NoPath

C12_Step ==
    \A w \in Workers :
        (ConvertSucceeded(w) /\ pc'[w] # pc[w]) =>
            /\ pc[w] = "unlink_src" =>
                  /\ pc'[w] = "rename"
                  /\ loc[w].task \notin DOMAIN disk'
            /\ pc[w] = "rename" =>
                  /\ pc'[w] = "reprobe"
                  /\ loc[w].final = with_suffix_mp4(loc[w].task)
                  /\ loc[w].final \in DOMAIN disk'
                  /\ loc[w].tmp \in DOMAIN disk
                  /\ disk'[loc[w].final] = disk[loc[w].tmp]
                  /\ loc[w].tmp \notin DOMAIN disk'
            /\ pc'[w] = "idle" =>
                  /\ pc[w] = "final_mark"
                  /\ loc[w].tmp \notin DOMAIN disk'
                  /\ loc[w].original_path_str \in processed_set'
                  /\ resolve(disk, with_suffix_mp4(loc[w].task)) \in processed_set'

\* C12: successful conversion effects.  Once convert has succeeded for a
\* file, the original is deleted, the temporary output becomes {stem}.mp4 and
\* is no longer there under its temporary name, and the processing of the file
\* ends with both identities, before and after, in processed_set.
C12_SuccessEffects == [][C12_Step]_vars

SkipDecisions == {"unprobeable", "policy-4k-hdr", "already-optimal"}

\* No conversion of a skipped file is under way, and once its processing has
\* ended its identity is in processed_set.
C13_Skipped ==
    \A r \in decided :
        r.d \in SkipDecisions =>
            /\ \A w \in Workers :
                  loc[w].task = r.path =>
                      /\ loc[w].tmp = NoPath
                      /\ pc[w] \in {"skip_mark", "extract", "final_mark"}
            /\ (\A w \in Workers : loc[w].task # r.path) =>
                  resolve(disk0, r.path) \in processed_set

\* No step of the run deletes, renames or rewrites a file that was skipped.
C13_Step ==
    \A r \in decided :
        (r.d \in SkipDecisions /\ r.path \in DOMAIN disk) =>
            /\ r.path \in DOMAIN disk'
            /\ disk'[r.path] = disk[r.path]

\* C13: skip outcomes have no file effects.  For a file this run decided to
\* skip as unprobeable, 4K/HDR or already optimal, no conversion is attempted,
\* the file stays on disk unchanged to the end of the run, and its identity is
\* added to processed_set.
C13_SkipsLeaveFiles == []C13_Skipped /\ [][C13_Step]_vars

\* The strategy that ran in this step exited with status zero and the output
\* path exists after it.
C14_Success(w, result) ==
    result.exit = "zero" /\ loc[w].tmp \in DOMAIN disk'

C14_Step ==
    \A w \in Workers :
        /\ (pc[w] = "gpu" /\ pc'[w] # "gpu") =>
              /\ C14_Success(w, loc'[w].gpu) => pc'[w] = "unlink_src"
              /\ pc'[w] = "unlink_src" => C14_Success(w, loc'[w].gpu)
              /\ pc'[w] \in {"unlink_src", "cpu", "conversion_failed"}
        /\ (pc[w] = "cpu" /\ pc'[w] # "cpu") =>
              /\ pc'[w] = "unlink_src" <=> C14_Success(w, loc'[w].cpu)
              /\ pc'[w] = "conversion_failed" <=> ~C14_Success(w, loc'[w].cpu)
              /\ (loc[w].gpu.exit = "nonzero" /\ C14_Success(w, loc'[w].cpu)) =>
                    /\ pc'[w] = "unlink_src"
                    /\ loc[w].tmp \in DOMAIN disk'

\* C14: encoder success is exit status and output together.  convert returns
\* true exactly when the strategy that ran last exited with status zero and the
\* output path exists afterwards; when the GPU strategy exits non-zero and the
\* CPU strategy succeeds, convert returns true with the output in place.
C14_SuccessIsExitAndOutput == [][C14_Step]_vars

\* The GPU strategy exited non-zero, the CPU strategy succeeded, and the final
\* file has been produced.
C14_Witness ==
    \E w \in Workers :
        /\ pc[w] = "reprobe"
        /\ loc[w].gpu.exit = "nonzero"
        /\ loc[w].cpu = [exit |-> "zero", exists |-> TRUE]
        /\ loc[w].final \in DOMAIN disk
        /\ disk[loc[w].final].v # <<>>

\* C15: subtitle extraction is idempotent.  After a first call in which no
\* run of the encoder failed, a second call in succession makes no run of the
\* encoder and leaves the sidecars as the first call left them, tagged or
\* untagged tracks alike.
C15_ExtractIdempotent ==
    (Len(calls) = 2 /\ calls[1].failed = 0) =>
        /\ calls[2].ran = 0
        /\ calls[2].after = calls[1].after

\* The tracks of the profile worker w is about to extract from.
TracksOf(w) ==
    Range(loc[w].info.text_sub_tracks) \cup Range(loc[w].info.image_sub_tracks)

\* The extraction request of a track addresses, in the final file, the
\* subtitle stream the probe listed at that place of its subtitle query.
C16_IndexAddressesTrack ==
    \A w \in Workers :
        (pc[w] = "extract" /\ loc[w].final \in DOMAIN disk) =>
            \A t \in TracksOf(w) :
                MappedStream(disk[loc[w].final], t[1]) = [type |-> "s", k |-> t[1] + 1]

\* After a successful conversion the extraction is reached through the
\* second probe only.
C16_ReprobeStep ==
    \A w \in Workers :
        (loc[w].tmp # NoPath /\ pc[w] # "extract" /\ pc'[w] = "extract") =>
            /\ pc[w] = "reprobe"
            /\ \E q \in QueriesOn(disk, loc[w].final) :
                 loc'[w].info = check_video_info(Contents(disk, loc[w].final), q)

\* C16: subtitle extraction runs against the final container's stream
\* indices.  After a conversion the final file is probed again, and the index
\* each extraction request passes addresses, in the final file, the very
\* subtitle stream the probe classified as that track.
C16_FinalContainerIndices == []C16_IndexAddressesTrack /\ [][C16_ReprobeStep]_vars

\* The temporary files of earlier conversions of p that were on disk when this
\* run scanned the library.
Leftovers(p) == TempMatches(disk0, p)

\* The processing of the scanned file p has begun and is past its first step.
Begun(p) ==
    /\ run >= 1
    /\ p \in Scanned
    /\ p \notin Range(queue)
    /\ \A w \in Workers : loc[w].task = p => pc[w] # "cleanup"

\* C17: proactive temp cleanup.  For every scanned file whose processing has
\* begun, the leftover temporary files of its stem are gone from its first
\* step on, so before any conversion of it begins.
C17_LeftoversDeletedFirst ==
    \A p \in Scanned :
        Begun(p) => Leftovers(p) \cap DOMAIN disk = {}

C18_RenameStep ==
    \A w \in Workers :
        (pc[w] = "rename" /\ pc'[w] = "reprobe") => loc[w].final \notin DOMAIN disk

\* The content of the scanned file p is on disk, as it was or converted.
ContentKept(p) ==
    \E f \in DOMAIN disk : disk[f] \in {disk0[p], EncoderOutput(disk0[p])}

C18_ContentsKept ==
    RunOver =>
        \A p1, p2 \in Scanned :
            (p1 # p2 /\ p1.stem = p2.stem) => ContentKept(p1) /\ ContentKept(p2)

\* C18: no content is lost by the final rename.  The rename of a temporary
\* output to {stem}.mp4 never replaces an existing file, and after the run the
\* content of each of two scanned files of one stem is still on disk, as the
\* original or as its own converted output.
C18_RenameLosesNothing == [][C18_RenameStep]_vars /\ []C18_ContentsKept

C19_CleanupStep ==
    \A w \in Workers :
        (pc[w] = "cleanup" /\ pc'[w] = "hash") =>
            LET deleted == DOMAIN disk \ DOMAIN disk'
            IN  /\ \A u \in Workers \ {w} :
                      pc[u] \in {"unlink_src", "rename"} => loc[u].tmp \notin deleted
                /\ deleted \cap Scanned = {}

\* C19: temp-file isolation between workers.  The cleanup a worker runs for
\* its file deletes no temporary output of another worker's conversion, written
\* and not yet renamed, and no scanned file that is an input of the run.
C19_CleanupIsolated == [][C19_CleanupStep]_vars

\* The contents the library may hold before any run.
Originals == UNION {{lib[p] : p \in DOMAIN lib} : lib \in Libraries}

\* A first copy of the fingerprint h is on disk at another canonical path than
\* that of task: a file that gives h, or the converted output of one that did.
FirstCopyExists(d, task, h) ==
    \E f \in DOMAIN d :
        /\ resolve(d, f) # resolve(d, task)
        /\ \/ compute_file_hash(Contents(d, f)) = h
           \/ \E o \in Originals :
                /\ compute_file_hash(o) = h
                /\ Contents(d, f) \in {EncoderOutput(o), PartialOutput}

C20_DeleteStep ==
    \A w \in Workers :
        (pc[w] = "dup_unlink" /\ pc'[w] = "dup_mark") =>
            FirstCopyExists(disk, loc[w].task, loc[w].hash)

\* C20: the first copy survives duplicate deletion.  Whenever a file is
\* deleted as a duplicate, a file at a different canonical path that gave the
\* same fingerprint, or its converted replacement, is on disk at that moment.
C20_FirstCopySurvives == [][C20_DeleteStep]_vars

====
